---------------------------- MODULE Spec2Model ----------------------------
(***************************************************************************)
(* Model of the Wwise FNV-1 preimage-recovery engine                       *)
(* (src/HashCracking/Dll/fnv1_hash.c).                                     *)
(*                                                                         *)
(* A uint32_t is a pair <<hi, lo>> of 16-bit limbs (value hi * 2^16 + lo), *)
(* so that every product and sum stays exact and wraps modulo 2^32 as the  *)
(* C arithmetic does.  A C string is the sequence of its byte codes,       *)
(* without the terminating NUL.                                            *)
(***************************************************************************)
EXTENDS Integers, Sequences, FiniteSets, TLC

(***************************************************************************)
(* uint32_t arithmetic on limbs                                            *)
(***************************************************************************)
Limb == 65536

U32(hi, lo) == <<hi, lo>>

\* the 32-bit product of two 16-bit numbers, as <<hi, lo>>
Mul16(a, b) ==
    LET x == a * (b \div 256)
        y == a * (b % 256)
        t == (x % 256) * 256 + y
    IN  <<(x \div 256 + t \div Limb) % Limb, t % Limb>>

\* a * k modulo 2^32
Mul32(a, k) ==
    LET ll == Mul16(a[2], k[2])
        hl == Mul16(a[1], k[2])
        lh == Mul16(a[2], k[1])
    IN  <<(ll[1] + hl[2] + lh[2]) % Limb, ll[2]>>

RECURSIVE XorBits(_, _, _)
XorBits(a, b, n) ==
    IF n = 0 THEN 0
    ELSE ((a + b) % 2) + 2 * XorBits(a \div 2, b \div 2, n - 1)

\* the XOR of two 4-bit numbers, tabulated
XorNibble == [a \in 0..15 |-> [b \in 0..15 |-> XorBits(a, b, 4)]]

\* h ^= (uint8_t)c: the low byte of h is XORed with the byte c
XorByte(h, c) ==
    LET b == h[2] % 256
    IN  <<h[1], (h[2] \div 256) * 256 + 16 * XorNibble[b \div 16][c \div 16]
                                       + XorNibble[b % 16][c % 16]>>

\* unsigned comparison of two uint32_t
Less32(a, b) == a[1] < b[1] \/ (a[1] = b[1] /\ a[2] < b[2])

(***************************************************************************)
(* Constants of the hash                                                   *)
(***************************************************************************)
FNV_OFFSET == U32(33052, 40389)   \* 2166136261 = 0x811C9DC5
FNV_PRIME == U32(256, 403)        \* 16777619   = 0x01000193
FNV_INVERSE == U32(13724, 17563)  \* 899433627  = 0x359C449B

\* tolower() in the C locale, on an ASCII byte
tolower(c) == IF c >= 65 /\ c <= 90 THEN c + 32 ELSE c

FNV_MULTIPLY(h) == Mul32(h, FNV_PRIME)

\* s with every uppercase letter replaced by its lowercase form
Lowered(s) == [i \in 1..Len(s) |-> IF s[i] >= 65 /\ s[i] <= 90 THEN s[i] + 32 ELSE s[i]]

(***************************************************************************)
(* Core hash functions                                                     *)
(***************************************************************************)
RECURSIVE HashLoopNoFold(_, _, _)
HashLoopNoFold(h, s, i) ==
    IF i > Len(s) THEN h
    ELSE HashLoopNoFold(XorByte(Mul32(h, FNV_PRIME), s[i]), s, i + 1)

\* mutant: the hash without the case fold
wwise_hash_nofold(s) == HashLoopNoFold(FNV_OFFSET, s, 1)

RECURSIVE HashLoop(_, _, _)
\* the loop of wwise_hash from character i on
HashLoop(h, s, i) ==
    IF i > Len(s) THEN h
    ELSE HashLoop(XorByte(FNV_MULTIPLY(h), tolower(s[i])), s, i + 1)

wwise_hash(s) == HashLoop(FNV_OFFSET, s, 1)

\* mutant: the continuation restarts from the offset basis
wwise_hash_continue_restart(prev_hash, s) == HashLoopNoFold(FNV_OFFSET, Lowered(s), 1)

RECURSIVE ContinueLoop(_, _, _)
ContinueLoop(h, s, i) ==
    IF i > Len(s) THEN h
    ELSE ContinueLoop(XorByte(Mul32(h, FNV_PRIME), tolower(s[i])), s, i + 1)

wwise_hash_continue(prev_hash, s) == ContinueLoop(prev_hash, s, 1)

RECURSIVE InverseLoopSwapped(_, _, _)
InverseLoopSwapped(h, suffix, i) ==
    IF i < 0 THEN h
    ELSE InverseLoopSwapped(XorByte(Mul32(h, FNV_INVERSE), tolower(suffix[i + 1])),
                            suffix, i - 1)

\* mutant: multiplies by the inverse before undoing the XOR
wwise_hash_inverse_swapped(target_hash, suffix, len) ==
    InverseLoopSwapped(target_hash, suffix, len - 1)

RECURSIVE InverseLoop(_, _, _)
\* for (i = len - 1; i >= 0; i--), with suffix[i] the (i+1)-th byte
InverseLoop(h, suffix, i) ==
    IF i < 0 THEN h
    ELSE InverseLoop(Mul32(XorByte(h, tolower(suffix[i + 1])), FNV_INVERSE),
                     suffix, i - 1)

wwise_hash_inverse(target_hash, suffix, len) == InverseLoop(target_hash, suffix, len - 1)

HASH30_MASK == U32(16383, 65535)  \* 0x3FFFFFFF

\* a & b on uint32_t, for a mask b whose limbs are each 2^k - 1 or 2^16 - 2^8
And32(a, b) ==
    LET and(x, m) == IF m = 0 THEN 0
                     ELSE IF m = 65280 THEN (x \div 256) * 256
                     ELSE x % (m + 1)
    IN  <<and(a[1], b[1]), and(a[2], b[2])>>

\* h >> 30
Shr30(h) == <<0, h[1] \div 16384>>

\* a ^ b on uint32_t
Xor32(a, b) == <<XorBits(a[1], b[1], 16), XorBits(a[2], b[2], 16)>>

\* mutant: the top two bits are dropped, not folded in
wwise_hash30_masked(s) == And32(wwise_hash(s), HASH30_MASK)

\* uint32_t h32 = wwise_hash(s); return (h32 >> 30) ^ (h32 & HASH30_MASK);
wwise_hash30(s) ==
    LET h32 == wwise_hash(s)
    IN  Xor32(Shr30(h32), And32(h32, HASH30_MASK))

wwise_hash32_to_30(h32) == Xor32(Shr30(h32), And32(h32, HASH30_MASK))

\* return (hash * FNV_PRIME) & 0xFFFFFF00u;
wwise_hash_fuzzy_mask(hash) == And32(Mul32(hash, FNV_PRIME), U32(65535, 65280))

(***************************************************************************)
(* Brute-force worker: charsets and the target index                       *)
(***************************************************************************)
\* "abcdefghijklmnopqrstuvwxyz_0123456789" as byte codes
CHARSET ==
    <<97, 98, 99, 100, 101, 102, 103, 104, 105, 106, 107, 108, 109,
      110, 111, 112, 113, 114, 115, 116, 117, 118, 119, 120, 121, 122,
      95, 48, 49, 50, 51, 52, 53, 54, 55, 56, 57>>
CHARSET_LEN == 37

\* "abcdefghijklmnopqrstuvwxyz"
CHARSET_FIRST ==
    <<97, 98, 99, 100, 101, 102, 103, 104, 105, 106, 107, 108, 109,
      110, 111, 112, 113, 114, 115, 116, 117, 118, 119, 120, 121, 122>>
CHARSET_FIRST_LEN == 26

\* "abcdefghijklmnopqrstuvwxyz_0123456789"
CHARSET_REST ==
    <<97, 98, 99, 100, 101, 102, 103, 104, 105, 106, 107, 108, 109,
      110, 111, 112, 113, 114, 115, 116, 117, 118, 119, 120, 121, 122,
      95, 48, 49, 50, 51, 52, 53, 54, 55, 56, 57>>
CHARSET_REST_LEN == 37

\* strchr(set, c) - set: the 0-based index of the first occurrence of c
IndexIn(set, c) == (CHOOSE i \in 1..Len(set) : set[i] = c /\ \A j \in 1..(i - 1) : set[j] # c) - 1

\* mutant: the search compares the other way round
BSearchStepReversed(h, targets, lo, hi) ==
    LET mid == (lo + hi) \div 2
    IN  IF targets[mid + 1] = h THEN [lo |-> lo, hi |-> hi, found |-> 1]
        ELSE IF Less32(h, targets[mid + 1]) THEN [lo |-> mid + 1, hi |-> hi, found |-> 0]
        ELSE [lo |-> lo, hi |-> mid - 1, found |-> 0]

\* one iteration of the loop of is_target (lo <= hi holds); targets[i] of the
\* C array is targets[i + 1] of the sequence
BSearchStep(h, targets, lo, hi) ==
    LET mid == (lo + hi) \div 2
    IN  IF targets[mid + 1] = h THEN [lo |-> lo, hi |-> hi, found |-> 1]
        ELSE IF Less32(targets[mid + 1], h) THEN [lo |-> mid + 1, hi |-> hi, found |-> 0]
        ELSE [lo |-> lo, hi |-> mid - 1, found |-> 0]

RECURSIVE BSearch(_, _, _, _)
BSearch(h, targets, lo, hi) ==
    IF lo > hi THEN 0
    ELSE LET r == BSearchStep(h, targets, lo, hi)
         IN  IF r.found = 1 THEN 1 ELSE BSearch(h, targets, r.lo, r.hi)

\* mutant: the search leaves out the last entry (hi = target_count - 2)
is_target_short(h, targets, target_count) == BSearch(h, targets, 0, target_count - 2)

is_target(h, targets, target_count) == BSearch(h, targets, 0, target_count - 1)

\* targets[0..n) in non-decreasing unsigned order
IsSorted(targets) == \A i \in 1..(Len(targets) - 1) : ~Less32(targets[i + 1], targets[i])

(***************************************************************************)
(* Inputs of the pure functions                                            *)
(***************************************************************************)
MaxStrLen == 2

\* sample ASCII bytes: '@' 'A' 'Z' '[' '_' 'a'
SampleBytes == {64, 65, 90, 91, 95, 97}

RECURSIVE StringsUpTo(_, _)
StringsUpTo(A, n) ==
    IF n = 0 THEN {<<>>}
    ELSE LET S == StringsUpTo(A, n - 1)
         IN  S \cup {Append(s, c) : s \in {t \in S : Len(t) = n - 1}, c \in A}

SampleStrings == StringsUpTo(SampleBytes, MaxStrLen)

MaxTargets == 3

\* sample hash values, among them the extremes and two that differ by 2^31
SampleHashes == {U32(0, 0), U32(0, 1), U32(1292, 23934), U32(32768, 1), U32(65535, 65535)}

\* every non-decreasing array of at most MaxTargets sample values (duplicates
\* allowed, the empty array included)
SortedArrays == {t \in StringsUpTo(SampleHashes, MaxTargets) : IsSorted(t)}

VARIABLES
    \* a call of a pure function: its name, its uint32_t and string arguments,
    \* its result
    fn, arg_h, str_p, str_s, ret,
    \* is_target: the hash looked for, the array, the interval, the iterations
    bs_h, bs_targets, bs_lo, bs_hi, bs_iter,
    \* a brute-force call: its arguments, the place in its code, its locals
    args, pc, len, first_idx, candidate, cached_hash, found,
    \* the caller's output arrays and the value returned (-1: not returned)
    found_hashes, found_names, returned,
    \* history: candidates hashed, the last one, those not a target, the
    \* highest output index written (-1: none)
    visited, last, misses, max_written,
    \* a sharded search: the one-pass call it is compared with, the number of
    \* shards started, the results of the one pass and of the shards so far
    plan, shard, onepass, sharded,
    \* meet in the middle: the arguments, the place, the forward and the
    \* inverse table, the index of the join loop, the strings reported
    m_args, m_pc, prefix_table, suffix_table, m_i, results,
    \* the n-gram filter: the bitmap loaded (the set of the indices whose bit
    \* is 0) and the flag ngram_filter_loaded
    ngram_filter, ngram_filter_loaded,
    \* the legacy wrapper: the number of slots of the local name buffer it hands
    \* to brute_force_prefix_optimized (0: no wrapper, the caller's array)
    names_slots

hashVars == <<fn, arg_h, str_p, str_s, ret>>

bsVars == <<bs_h, bs_targets, bs_lo, bs_hi, bs_iter>>

enumVars == <<args, pc, len, first_idx, candidate, cached_hash, found,
              found_hashes, found_names, returned, visited, last, misses, max_written>>

shardVars == <<plan, shard, onepass, sharded>>

mitmVars == <<m_args, m_pc, prefix_table, suffix_table, m_i, results>>

filterVars == <<ngram_filter, ngram_filter_loaded>>

legacyVars == <<names_slots>>

vars == <<hashVars, bsVars, enumVars, shardVars, mitmVars, filterVars, legacyVars>>

(***************************************************************************)
(* The pure hash functions, applied to sample inputs                       *)
(***************************************************************************)
IdleLegacy == names_slots = 0

\* static uint8_t* ngram_filter = NULL; static int ngram_filter_loaded = 0;
IdleFilter ==
    /\ ngram_filter = {}
    /\ ngram_filter_loaded = 0

IdleHash ==
    /\ fn = "none"
    /\ arg_h = U32(0, 0)
    /\ str_p = <<>>
    /\ str_s = <<>>
    /\ ret = U32(0, 0)

IdleSearch ==
    /\ bs_h = U32(0, 0)
    /\ bs_targets = <<>>
    /\ bs_lo = 0
    /\ bs_hi = -1
    /\ bs_iter = 0

NoArgs ==
    [call |-> "none", prefix |-> <<>>, prefix_len |-> 0, min_len |-> 0, max_len |-> 0,
     targets |-> <<>>, target_count |-> 0, max_found |-> 0]

IdleEnum ==
    /\ args = NoArgs
    /\ pc = "idle"
    /\ len = 0
    /\ first_idx = 0
    /\ candidate = <<>>
    /\ cached_hash = U32(0, 0)
    /\ found = 0
    /\ found_hashes = <<>>
    /\ found_names = <<>>
    /\ returned = -1
    /\ visited = 0
    /\ last = <<>>
    /\ misses = 0
    /\ max_written = -1

IdleShard ==
    /\ plan = NoArgs
    /\ shard = 0
    /\ onepass = <<>>
    /\ sharded = <<>>

NoMitmArgs ==
    [generator |-> "none", prefix_max_len |-> 0, prefix_max_entries |-> 0,
     suffix_max_len |-> 0, suffix_max_entries |-> 0, targets |-> <<>>,
     target_count |-> 0, max_results |-> 0]

IdleMitm ==
    /\ m_args = NoMitmArgs
    /\ m_pc = "idle"
    /\ prefix_table = <<>>
    /\ suffix_table = <<>>
    /\ m_i = 0
    /\ results = <<>>

InitHash ==
    /\ IdleFilter
    /\ IdleLegacy
    /\ fn = "none"
    /\ arg_h = U32(0, 0)
    /\ str_p \in SampleStrings
    /\ str_s \in SampleStrings
    /\ ret = U32(0, 0)
    /\ IdleSearch
    /\ IdleEnum
    /\ IdleShard
    /\ IdleMitm

\* the caller hashes p and continues the hash over s
Call_wwise_hash_continue ==
    /\ fn = "none"
    /\ fn' = "continue"
    /\ ret' = wwise_hash_continue(wwise_hash(str_p), str_s)
    /\ UNCHANGED <<arg_h, str_p, str_s>>
    /\ UNCHANGED <<bsVars, enumVars, shardVars, mitmVars, filterVars, legacyVars>>

\* the caller hashes p ++ s and undoes the suffix s
Call_wwise_hash_inverse ==
    /\ fn = "none"
    /\ fn' = "inverse"
    /\ ret' = wwise_hash_inverse(wwise_hash(str_p \o str_s), str_s, Len(str_s))
    /\ UNCHANGED <<arg_h, str_p, str_s>>
    /\ UNCHANGED <<bsVars, enumVars, shardVars, mitmVars, filterVars, legacyVars>>

\* the caller hashes p ++ s
Call_wwise_hash ==
    /\ fn = "none"
    /\ fn' = "hash"
    /\ ret' = wwise_hash(str_p \o str_s)
    /\ UNCHANGED <<arg_h, str_p, str_s>>
    /\ UNCHANGED <<bsVars, enumVars, shardVars, mitmVars, filterVars, legacyVars>>

NextHash ==
    \/ Call_wwise_hash
    \/ Call_wwise_hash_continue
    \/ Call_wwise_hash_inverse

SpecHash == InitHash /\ [][NextHash]_vars

\* there is an uppercase letter in s
HasUpper(s) == \E i \in 1..Len(s) : s[i] >= 65 /\ s[i] <= 90

\* C1: continuing the hash of p over s gives the hash of p ++ s
ContinuationLaw == fn = "continue" => ret = wwise_hash(str_p \o str_s)

ContinuationWitness ==
    /\ fn = "continue"
    /\ Len(str_p) = MaxStrLen
    /\ Len(str_s) = MaxStrLen
    /\ HasUpper(str_s)
    /\ ret = wwise_hash(str_p \o str_s)

\* C2: undoing the suffix s from the hash of p ++ s gives the hash of p
InversionLaw == fn = "inverse" => ret = wwise_hash(str_p)

InversionWitness ==
    /\ fn = "inverse"
    /\ Len(str_p) = MaxStrLen
    /\ Len(str_s) = MaxStrLen
    /\ ret = wwise_hash(str_p)
    /\ ret # wwise_hash(str_p \o str_s)

\* C9: the three functions give the same value on a string and on its
\* lowercase form
CaseInvariance ==
    /\ fn = "hash" => ret = wwise_hash(Lowered(str_p \o str_s))
    /\ fn = "continue" => ret = wwise_hash_continue(wwise_hash(str_p), Lowered(str_s))
    /\ fn = "inverse" =>
           ret = wwise_hash_inverse(wwise_hash(str_p \o str_s), Lowered(str_s), Len(str_s))

CaseInvarianceWitness ==
    /\ fn = "hash"
    /\ HasUpper(str_p)
    /\ HasUpper(str_s)
    /\ Lowered(str_p \o str_s) # str_p \o str_s
    /\ ret = wwise_hash(Lowered(str_p \o str_s))

(***************************************************************************)
(* is_target, one loop iteration per step                                  *)
(***************************************************************************)
InitTarget ==
    /\ IdleFilter
    /\ IdleLegacy
    /\ IdleHash
    /\ bs_h \in SampleHashes
    /\ bs_targets \in SortedArrays
    /\ bs_lo = 0
    /\ bs_hi = Len(bs_targets) - 1
    /\ bs_iter = 0
    /\ IdleEnum
    /\ IdleShard
    /\ IdleMitm

\* while (lo <= hi) { ... }: one iteration, or the return
IsTargetIterate ==
    /\ fn = "none"
    /\ bs_lo <= bs_hi
    /\ LET r == BSearchStep(bs_h, bs_targets, bs_lo, bs_hi)
       IN  IF r.found = 1
           THEN /\ fn' = "is_target"
                /\ ret' = U32(0, 1)
                /\ UNCHANGED <<bs_lo, bs_hi>>
           ELSE /\ bs_lo' = r.lo
                /\ bs_hi' = r.hi
                /\ UNCHANGED <<fn, ret>>
    /\ bs_iter' = bs_iter + 1
    /\ UNCHANGED <<arg_h, str_p, str_s, bs_h, bs_targets>>
    /\ UNCHANGED <<enumVars, shardVars, mitmVars, filterVars, legacyVars>>

\* the loop ends without a match: return 0
IsTargetReturn0 ==
    /\ fn = "none"
    /\ bs_lo > bs_hi
    /\ fn' = "is_target"
    /\ ret' = U32(0, 0)
    /\ UNCHANGED <<arg_h, str_p, str_s>>
    /\ UNCHANGED <<bsVars, enumVars, shardVars, mitmVars, filterVars, legacyVars>>

NextTarget ==
    \/ IsTargetIterate
    \/ IsTargetReturn0

SpecTarget == InitTarget /\ [][NextTarget]_vars

Occurs(h, targets) == \E i \in 1..Len(targets) : targets[i] = h

RECURSIVE Pow2(_)
Pow2(n) == IF n = 0 THEN 1 ELSE 2 * Pow2(n - 1)

\* C8: is_target returns 1 exactly when h occurs in the sorted array, and the
\* interval still to search at least halves with every iteration, so the loop
\* ends after at most log2(n) + 1 iterations
TargetMembership ==
    /\ fn = "is_target" => (ret = U32(0, 1)) = Occurs(bs_h, bs_targets)
    /\ fn = "is_target" => ret \in {U32(0, 0), U32(0, 1)}
    /\ fn = "none" => (bs_hi - bs_lo + 1) * Pow2(bs_iter) <= Len(bs_targets)
    /\ is_target(bs_h, bs_targets, Len(bs_targets)) = (IF Occurs(bs_h, bs_targets) THEN 1 ELSE 0)

TargetMembershipWitness ==
    /\ fn = "is_target"
    /\ ret = U32(0, 1)
    /\ bs_iter > 1
    /\ Len(bs_targets) = MaxTargets
    /\ \E i \in 1..(Len(bs_targets) - 1) : bs_targets[i] = bs_targets[i + 1]

(***************************************************************************)
(* The brute-force workers, one tested candidate per step                  *)
(***************************************************************************)
\* n copies of the byte c
Fill(c, n) == <<>> \o [i \in 1..n |-> c]

\* mutant: a position that wraps ends the block without carrying to the left
IncrementOnce(cand, pos, low, set, setlen) ==
    IF pos < low THEN [candidate |-> cand, pos |-> pos]
    ELSE LET idx == IndexIn(set, cand[pos + 1])
         IN  IF idx < setlen - 1
             THEN [candidate |-> [cand EXCEPT ![pos + 1] = set[idx + 2]], pos |-> pos]
             ELSE [candidate |-> [cand EXCEPT ![pos + 1] = set[1]], pos |-> low - 1]

RECURSIVE IncrementShort(_, _, _, _, _)
\* mutant: the odometer carries one symbol early (idx < setlen - 2)
IncrementShort(cand, pos, low, set, setlen) ==
    IF pos < low THEN [candidate |-> cand, pos |-> pos]
    ELSE LET idx == IndexIn(set, cand[pos + 1])
         IN  IF idx < setlen - 2
             THEN [candidate |-> [cand EXCEPT ![pos + 1] = set[idx + 2]], pos |-> pos]
             ELSE IncrementShort([cand EXCEPT ![pos + 1] = set[1]], pos - 1, low, set, setlen)

RECURSIVE Increment(_, _, _, _, _)
\* the odometer: while (pos >= low) { idx = strchr(set, candidate[pos]) - set;
\* if (idx < setlen - 1) { candidate[pos] = set[idx + 1]; break; }
\* candidate[pos] = set[0]; pos--; }
Increment(cand, pos, low, set, setlen) ==
    IF pos < low THEN [candidate |-> cand, pos |-> pos]
    ELSE LET idx == IndexIn(set, cand[pos + 1])
         IN  IF idx < setlen - 1
             THEN [candidate |-> [cand EXCEPT ![pos + 1] = set[idx + 2]], pos |-> pos]
             ELSE Increment([cand EXCEPT ![pos + 1] = set[1]], pos - 1, low, set, setlen)

\* array[i] = v on a caller's output array
Store(array, i, v) ==
    IF i < Len(array) THEN [array EXCEPT ![i + 1] = v]
    ELSE array \o Fill(v, i + 1 - Len(array))

\* mutant: the match is stored whatever the capacity
MayStoreAlways(n, max_found) == TRUE

\* the capacity test before a match is stored in the odometer loops
MayStore(n, max_found) == n < max_found

\* found_hashes[found] = h; strcpy(found_names[found], candidate); found++;
\* or nothing when the candidate is no match
Report(hit, h, name) ==
    /\ found' = IF hit THEN found + 1 ELSE found
    /\ found_hashes' = IF hit THEN Store(found_hashes, found, h) ELSE found_hashes
    /\ found_names' = IF hit THEN Store(found_names, found, name) ELSE found_names
    /\ max_written' = IF hit /\ found > max_written THEN found ELSE max_written

\* history of the candidate just hashed and tested
Visit(name, isTarget) ==
    /\ visited' = visited + 1
    /\ last' = name
    /\ misses' = IF isTarget THEN misses ELSE misses + 1

NoVisit == UNCHANGED <<visited, last, misses>>

\* the entry of brute_force_wwise: found = 0, len = min_len
BeginWwise ==
    /\ pc = "call"
    /\ args.call = "wwise"
    /\ found' = 0
    /\ len' = args.min_len
    /\ pc' = "w_len"
    /\ UNCHANGED <<args, first_idx, candidate, cached_hash, found_hashes, found_names,
                   returned, max_written>>
    /\ NoVisit
    /\ UNCHANGED <<hashVars, bsVars, shardVars, mitmVars, filterVars, legacyVars>>

\* for (len = min_len; len <= max_len && found < max_found; len++): a length starts
W_Len ==
    /\ pc = "w_len"
    /\ len <= args.max_len /\ found < args.max_found
    /\ first_idx' = 0
    /\ pc' = "w_first"
    /\ UNCHANGED <<args, len, candidate, cached_hash, found, found_hashes, found_names,
                   returned, max_written>>
    /\ NoVisit
    /\ UNCHANGED <<hashVars, bsVars, shardVars, mitmVars, filterVars, legacyVars>>

\* the length loop ends: return found
W_Return ==
    /\ pc = "w_len"
    /\ ~(len <= args.max_len /\ found < args.max_found)
    /\ returned' = found
    /\ pc' = "done"
    /\ UNCHANGED <<args, len, first_idx, candidate, cached_hash, found, found_hashes,
                   found_names, max_written>>
    /\ NoVisit
    /\ UNCHANGED <<hashVars, bsVars, shardVars, mitmVars, filterVars, legacyVars>>

\* a first letter at len == 1: the one-letter candidate is hashed and tested
W_FirstSingle ==
    /\ pc = "w_first"
    /\ first_idx < CHARSET_FIRST_LEN /\ found < args.max_found
    /\ len = 1
    /\ \E c \in {<<CHARSET_FIRST[first_idx + 1]>>} :
       \E h \in {wwise_hash(c)} :
       \E t \in {is_target(h, args.targets, args.target_count) = 1} :
           /\ candidate' = c
           /\ Report(t, h, c)
           /\ Visit(c, t)
    /\ first_idx' = first_idx + 1
    /\ UNCHANGED <<args, pc, len, cached_hash, returned>>
    /\ UNCHANGED <<hashVars, bsVars, shardVars, mitmVars, filterVars, legacyVars>>

\* a first letter at len != 1: the rest is set to CHARSET_REST[0] and the hash of
\* the first letter is cached
W_FirstBlock ==
    /\ pc = "w_first"
    /\ first_idx < CHARSET_FIRST_LEN /\ found < args.max_found
    /\ len # 1
    /\ candidate' = <<CHARSET_FIRST[first_idx + 1]>> \o Fill(CHARSET_REST[1], len - 1)
    /\ cached_hash' = XorByte(Mul32(FNV_OFFSET, FNV_PRIME), CHARSET_FIRST[first_idx + 1])
    /\ pc' = "w_inner"
    /\ UNCHANGED <<args, len, first_idx, found, found_hashes, found_names, returned,
                   max_written>>
    /\ NoVisit
    /\ UNCHANGED <<hashVars, bsVars, shardVars, mitmVars, filterVars, legacyVars>>

\* the first-letter loop ends: len++
W_FirstExit ==
    /\ pc = "w_first"
    /\ ~(first_idx < CHARSET_FIRST_LEN /\ found < args.max_found)
    /\ len' = len + 1
    /\ pc' = "w_len"
    /\ UNCHANGED <<args, first_idx, candidate, cached_hash, found, found_hashes,
                   found_names, returned, max_written>>
    /\ NoVisit
    /\ UNCHANGED <<hashVars, bsVars, shardVars, mitmVars, filterVars, legacyVars>>

\* one turn of while (1): the candidate is hashed from the cached hash, tested
\* and stored, then the positions 1.. are advanced; a carry out of position 1
\* ends the block (first_idx++)
W_Inner ==
    /\ pc = "w_inner"
    /\ \E h \in {wwise_hash_continue(cached_hash, Tail(candidate))} :
       \E t \in {is_target(h, args.targets, args.target_count) = 1} :
       \E n \in {Increment(candidate, len - 1, 1, CHARSET_REST, CHARSET_REST_LEN)} :
           /\ Report(t /\ MayStore(found, args.max_found), h, candidate)
           /\ Visit(candidate, t)
           /\ candidate' = n.candidate
           /\ pc' = IF n.pos < 1 THEN "w_first" ELSE "w_inner"
           /\ first_idx' = IF n.pos < 1 THEN first_idx + 1 ELSE first_idx
    /\ UNCHANGED <<args, len, cached_hash, returned>>
    /\ UNCHANGED <<hashVars, bsVars, shardVars, mitmVars, filterVars, legacyVars>>

\* the entry of brute_force_prefix_optimized: the prefix is copied and hashed,
\* and tested itself when prefix_len <= max_len; then len = prefix_len + 1
BeginPrefix ==
    /\ pc = "call"
    /\ args.call = "prefix"
    /\ candidate' = args.prefix
    /\ cached_hash' = wwise_hash(args.prefix)
    /\ LET h == wwise_hash(args.prefix)
           t == is_target(h, args.targets, args.target_count) = 1
       IN  IF args.prefix_len <= args.max_len
           THEN /\ found' = IF t /\ MayStore(0, args.max_found) THEN 1 ELSE 0
                /\ found_hashes' = IF t /\ MayStore(0, args.max_found)
                                    THEN Store(found_hashes, 0, h) ELSE found_hashes
                /\ found_names' = IF t /\ MayStore(0, args.max_found)
                                   THEN Store(found_names, 0, args.prefix) ELSE found_names
                /\ max_written' = IF t /\ MayStore(0, args.max_found) /\ max_written < 0
                                   THEN 0 ELSE max_written
                /\ Visit(args.prefix, t)
           ELSE /\ found' = 0
                /\ UNCHANGED <<found_hashes, found_names, max_written>>
                /\ NoVisit
    /\ len' = args.prefix_len + 1
    /\ pc' = "p_len"
    /\ UNCHANGED <<args, first_idx, returned>>
    /\ UNCHANGED <<hashVars, bsVars, shardVars, mitmVars, filterVars, legacyVars>>

\* for (len = prefix_len + 1; len <= max_len && found < max_found; len++): the
\* suffix is set to CHARSET[0]
P_Len ==
    /\ pc = "p_len"
    /\ len <= args.max_len /\ found < args.max_found
    /\ candidate' = SubSeq(candidate, 1, args.prefix_len)
                        \o Fill(CHARSET[1], len - args.prefix_len)
    /\ pc' = "p_inner"
    /\ UNCHANGED <<args, len, first_idx, cached_hash, found, found_hashes, found_names,
                   returned, max_written>>
    /\ NoVisit
    /\ UNCHANGED <<hashVars, bsVars, shardVars, mitmVars, filterVars, legacyVars>>

\* the length loop ends: return found
P_Return ==
    /\ pc = "p_len"
    /\ ~(len <= args.max_len /\ found < args.max_found)
    /\ returned' = found
    /\ pc' = "done"
    /\ UNCHANGED <<args, len, first_idx, candidate, cached_hash, found, found_hashes,
                   found_names, max_written>>
    /\ NoVisit
    /\ UNCHANGED <<hashVars, bsVars, shardVars, mitmVars, filterVars, legacyVars>>

\* one turn of while (1): the suffix is hashed from the cached prefix hash,
\* tested and stored, then the positions prefix_len.. are advanced; a carry out
\* of position prefix_len ends the length (len++)
P_Inner ==
    /\ pc = "p_inner"
    /\ LET h == wwise_hash_continue(cached_hash,
                                    SubSeq(candidate, args.prefix_len + 1, Len(candidate)))
           t == is_target(h, args.targets, args.target_count) = 1
           n == Increment(candidate, len - 1, args.prefix_len, CHARSET, CHARSET_LEN)
       IN  /\ Report(t /\ MayStore(found, args.max_found), h, candidate)
           /\ Visit(candidate, t)
           /\ candidate' = n.candidate
           /\ pc' = IF n.pos < args.prefix_len THEN "p_len" ELSE "p_inner"
           /\ len' = IF n.pos < args.prefix_len THEN len + 1 ELSE len
    /\ UNCHANGED <<args, first_idx, cached_hash, returned>>
    /\ UNCHANGED <<hashVars, bsVars, shardVars, mitmVars, filterVars, legacyVars>>

(***************************************************************************)
(* The calls checked                                                       *)
(***************************************************************************)
\* every candidate of length n: first letter from CHARSET_FIRST, the others
\* from CHARSET_REST, listed in the order of the charsets
RECURSIVE CandidateList(_)
CandidateList(n) ==
    IF n = 1 THEN [i \in 1..CHARSET_FIRST_LEN |-> <<CHARSET_FIRST[i]>>]
    ELSE LET shorter == CandidateList(n - 1)
         IN  [k \in 1..(Len(shorter) * CHARSET_REST_LEN) |->
                Append(shorter[((k - 1) \div CHARSET_REST_LEN) + 1],
                       CHARSET_REST[((k - 1) % CHARSET_REST_LEN) + 1])]

\* 26 * 37^(n-1)
RECURSIVE CandidateCount(_)
CandidateCount(n) == IF n <= 1 THEN CHARSET_FIRST_LEN ELSE CHARSET_REST_LEN * CandidateCount(n - 1)

\* s in non-decreasing unsigned order (by the rank of each element)
SortU32(s) ==
    LET n == Len(s)
        rank == [i \in 1..n |->
                   Cardinality({j \in 1..n : Less32(s[j], s[i]) \/ (s[j] = s[i] /\ j < i)}) + 1]
    IN  [k \in 1..n |-> s[CHOOSE i \in 1..n : rank[i] = k]]

\* names whose hashes serve as targets: "a" "b" "ab" "zz" "a_9" "z99"
TargetNames == <<(<<97>>), (<<98>>), (<<97, 98>>), (<<122, 122>>), (<<97, 95, 57>>), (<<122, 57, 57>>)>>

HashesOf(names) == [i \in 1..Len(names) |-> wwise_hash(names[i])]

\* the hashes of the names above, sorted
T_Matches == SortU32(HashesOf(TargetNames))

\* a sorted array with repeated entries: "b" twice, "ab" three times
T_Dups == SortU32(HashesOf(<<(<<98>>), (<<97, 98>>), (<<98>>), (<<97, 98>>), (<<97, 98>>)>>))

\* an array that is not sorted: hash("a") = hash("b") + 1 comes first
T_Unsorted == HashesOf(<<(<<97>>), (<<98>>)>>)

\* a sorted array that no short candidate hashes to
T_NoMatch == <<U32(0, 0), U32(65535, 65535)>>

\* the hash of every candidate of length 2, then the rank of each among them
\* (they are pairwise different), then the hashes in the order of their ranks
All2Hashes == HashesOf(CandidateList(2))

All2Rank ==
    [i \in 1..Len(All2Hashes) |->
        Cardinality({j \in 1..Len(All2Hashes) : Less32(All2Hashes[j], All2Hashes[i])}) + 1]

All2Place == [k \in 1..Len(All2Hashes) |-> CHOOSE i \in 1..Len(All2Hashes) : All2Rank[i] = k]

\* the hash of every candidate of length 2, sorted
T_All2 == [k \in 1..Len(All2Hashes) |-> All2Hashes[All2Place[k]]]

TargetArrays == {<<>>, T_Matches, T_Dups, T_Unsorted, T_NoMatch, T_All2}

MaxFound == 3

WwiseArgs(lo, hi, t, m) ==
    [call |-> "wwise", prefix |-> <<>>, prefix_len |-> 0, min_len |-> lo, max_len |-> hi,
     targets |-> t, target_count |-> Len(t), max_found |-> m]

PrefixArgs(p, hi, t, m) ==
    [call |-> "prefix", prefix |-> p, prefix_len |-> Len(p), min_len |-> 0, max_len |-> hi,
     targets |-> t, target_count |-> Len(t), max_found |-> m]

\* the number of candidates of the lengths lo..hi: a capacity that is never reached
RECURSIVE RangeCount(_, _)
RangeCount(lo, hi) == IF lo > hi THEN 0 ELSE CandidateCount(lo) + RangeCount(lo + 1, hi)

\* brute_force_wwise over the lengths 1..2 with every target array and every
\* capacity up to MaxFound or never reached; and over the lengths up to 3 (the
\* shortest with a carry between two positions) with the matching targets:
\* capacity reached in the first block, reached after a whole length, never reached
WwiseCalls ==
    {WwiseArgs(r[1], r[2], t, m) :
        r \in {<<1, 1>>, <<1, 2>>, <<2, 2>>}, t \in TargetArrays, m \in 0..MaxFound}
    \cup {WwiseArgs(r[1], r[2], t, RangeCount(r[1], r[2])) :
        r \in {<<1, 1>>, <<1, 2>>, <<2, 2>>}, t \in TargetArrays}
    \cup {WwiseArgs(3, 3, T_Matches, 1), WwiseArgs(2, 3, T_Matches, 3),
          WwiseArgs(3, 3, T_Matches, RangeCount(3, 3))}

\* prefixes: "a", "A" (folded by the hash), "ab", "zz9"
Prefixes == {<<97>>, <<65>>, <<97, 98>>, <<122, 122, 57>>}

PrefixCalls ==
    {PrefixArgs(p, hi, t, m) :
        p \in Prefixes, hi \in 1..3, t \in {T_Matches, T_Dups, T_Unsorted},
        m \in (0..MaxFound) \cup {RangeCount(1, 3)}}

InitCall(a) ==
    /\ args = a
    /\ pc = "call"
    /\ len = 0
    /\ first_idx = 0
    /\ candidate = <<>>
    /\ cached_hash = U32(0, 0)
    /\ found = 0
    /\ found_hashes = <<>>
    /\ found_names = <<>>
    /\ returned = -1
    /\ visited = 0
    /\ last = <<>>
    /\ misses = 0
    /\ max_written = -1

InitEnum ==
    /\ IdleFilter
    /\ IdleLegacy
    /\ IdleHash
    /\ IdleSearch
    /\ IdleShard
    /\ IdleMitm
    /\ \E a \in WwiseCalls \cup PrefixCalls : InitCall(a)

NextEnum ==
    \/ BeginWwise
    \/ W_Len
    \/ W_Return
    \/ W_FirstSingle
    \/ W_FirstBlock
    \/ W_FirstExit
    \/ W_Inner
    \/ BeginPrefix
    \/ P_Len
    \/ P_Return
    \/ P_Inner

SpecEnum == InitEnum /\ [][NextEnum]_vars

(***************************************************************************)
(* What the workers are checked against                                    *)
(***************************************************************************)
Range(s) == {s[i] : i \in 1..Len(s)}

\* the place of a byte in the alphabet of its position
Place(c, i) == IF i = 1 THEN IndexIn(CHARSET_FIRST, c) ELSE IndexIn(CHARSET_REST, c)

\* a comes before b in the lexicographic order of the alphabets (equal lengths)
LexLess(a, b) ==
    \E i \in 1..Len(a) :
        /\ \A j \in 1..(i - 1) : a[j] = b[j]
        /\ Place(a[i], i) < Place(b[i], i)

IsCandidate(c) ==
    /\ Len(c) >= 1
    /\ c[1] \in Range(CHARSET_FIRST)
    /\ \A i \in 2..Len(c) : c[i] \in Range(CHARSET_REST)

\* the candidates of length n whose hash occurs in the array t
MatchesOfLen(t, n) ==
    LET T == Range(t)
    IN  {c \in Range(CandidateList(n)) : wwise_hash(c) \in T}

\* the matches of length 3 of the targets used at that length
Matches3 == MatchesOfLen(T_Matches, 3)

\* the candidates of brute_force_wwise(min_len, max_len) whose hash is a target
WwiseMatches(a) ==
    UNION {IF n = 3 /\ a.targets = T_Matches THEN Matches3 ELSE MatchesOfLen(a.targets, n) :
           n \in a.min_len..a.max_len}

RECURSIVE Suffixes(_)
\* the strings of length n over CHARSET
Suffixes(n) ==
    IF n = 0 THEN {<<>>}
    ELSE {Append(s, CHARSET[i]) : s \in Suffixes(n - 1), i \in 1..CHARSET_LEN}

\* the candidates of brute_force_prefix_optimized: the prefix and its
\* extensions up to max_len
PrefixCandidates(a) ==
    UNION {{a.prefix \o s : s \in Suffixes(n - a.prefix_len)} : n \in a.prefix_len..a.max_len}

PrefixMatches(a) ==
    LET T == Range(a.targets)
    IN  {c \in PrefixCandidates(a) : wwise_hash(c) \in T}

TrueMatches(a) == IF a.call = "wwise" THEN WwiseMatches(a) ELSE PrefixMatches(a)

\* C3: with min_len = max_len = L >= 2 and capacity for every candidate,
\* brute_force_wwise visits 26 * 37^(L-1) candidates, each after the one before
\* it in lexicographic order; when none of them misses the target array, it
\* reports every one of them, in that order
Exhaustive ==
    /\ (pc = "w_inner" /\ Len(last) = Len(candidate)) => LexLess(last, candidate)
    /\ pc = "w_inner" => (IsCandidate(candidate) /\ Len(candidate) = len)
    /\ (/\ pc = "done"
        /\ args.call = "wwise"
        /\ args.min_len = args.max_len
        /\ args.min_len >= 2
        /\ args.max_found >= CandidateCount(args.min_len))
       => /\ visited = CandidateCount(args.min_len)
          /\ misses = 0 => /\ returned = CandidateCount(args.min_len)
                           /\ found_names = CandidateList(args.min_len)
                           /\ found_hashes = HashesOf(found_names)

ExhaustiveWitness ==
    /\ pc = "done"
    /\ args.call = "wwise"
    /\ args.min_len = 2
    /\ args.max_len = 2
    /\ args.max_found >= CandidateCount(2)
    /\ misses = 0
    /\ visited = CandidateCount(2)
    /\ returned = visited

\* C6: no output slot beyond the capacity is written; with a sorted target
\* array and a capacity below the number of matches in range, the call
\* returns the capacity and every slot below it holds a match
Truncation ==
    /\ max_written < args.max_found \/ max_written = -1
    /\ Len(found_names) <= args.max_found
    /\ Len(found_hashes) <= args.max_found
    /\ (/\ pc = "done"
        /\ IsSorted(args.targets)
        /\ args.max_found < Cardinality(TrueMatches(args)))
       => /\ returned = args.max_found
          /\ Len(found_names) = args.max_found
          /\ Len(found_hashes) = args.max_found
          /\ \A i \in 1..args.max_found :
                /\ found_names[i] \in TrueMatches(args)
                /\ found_hashes[i] = wwise_hash(found_names[i])

\* a call cut short at capacity 2 with a third match left unreported
TruncationWitness ==
    /\ pc = "done"
    /\ IsSorted(args.targets)
    /\ args.max_found = 2
    /\ returned = 2
    /\ Cardinality(TrueMatches(args)) > 2

InvalidCall(a) ==
    \/ a.max_found = 0
    \/ ~IsSorted(a.targets)
    \/ (a.call = "prefix" /\ a.prefix_len > a.max_len)

\* C10: a call that violates the caller contract ends with an invalid-input
\* outcome (a value no count can be) before any candidate is hashed
InvalidInputReported ==
    (pc = "done" /\ InvalidCall(args)) => (returned < 0 /\ visited = 0)

(***************************************************************************)
(* A search in one pass, then the same search as 26 one-letter shards      *)
(***************************************************************************)
\* the (hash, string) pairs a call has returned
Pairs == [i \in 1..returned |-> <<found_hashes[i], found_names[i]>>]

\* one pass over the lengths 1..2 with a capacity that is never reached
ShardPlans ==
    {WwiseArgs(r[1], r[2], t, RangeCount(1, 2)) :
        r \in {<<1, 1>>, <<1, 2>>, <<2, 2>>}, t \in {<<>>, T_Matches, T_Dups}}

InitShard ==
    /\ IdleFilter
    /\ IdleLegacy
    /\ IdleHash
    /\ IdleSearch
    /\ IdleMitm
    /\ \E a \in ShardPlans : plan = a /\ InitCall(a)
    /\ shard = 0
    /\ onepass = <<>>
    /\ sharded = <<>>

\* the caller keeps the results of the call that has returned
Keep ==
    /\ onepass' = IF args.call = "wwise" THEN Pairs ELSE onepass
    /\ sharded' = IF args.call = "prefix" THEN sharded \o Pairs ELSE sharded

\* the caller starts the next shard: brute_force_prefix_optimized with the
\* next letter as prefix, prefix_len = 1 and the max_len of the one pass
NextShard ==
    /\ pc = "done"
    /\ shard < CHARSET_FIRST_LEN
    /\ Keep
    /\ args' = PrefixArgs(<<CHARSET_FIRST[shard + 1]>>, plan.max_len, plan.targets,
                          plan.max_found)
    /\ shard' = shard + 1
    /\ pc' = "call"
    /\ len' = 0
    /\ first_idx' = 0
    /\ candidate' = <<>>
    /\ cached_hash' = U32(0, 0)
    /\ found' = 0
    /\ found_hashes' = <<>>
    /\ found_names' = <<>>
    /\ returned' = -1
    /\ visited' = 0
    /\ last' = <<>>
    /\ misses' = 0
    /\ max_written' = -1
    /\ UNCHANGED plan
    /\ UNCHANGED <<hashVars, bsVars, mitmVars, filterVars, legacyVars>>

\* the last shard has returned: the caller has the union of the shards
Collect ==
    /\ pc = "done"
    /\ shard = CHARSET_FIRST_LEN
    /\ Keep
    /\ pc' = "joined"
    /\ UNCHANGED <<args, len, first_idx, candidate, cached_hash, found, found_hashes,
                   found_names, returned, visited, last, misses, max_written>>
    /\ UNCHANGED <<plan, shard>>
    /\ UNCHANGED <<hashVars, bsVars, mitmVars, filterVars, legacyVars>>

NextSharded ==
    \/ BeginWwise
    \/ W_Len
    \/ W_Return
    \/ W_FirstSingle
    \/ W_FirstBlock
    \/ W_FirstExit
    \/ W_Inner
    \/ BeginPrefix
    \/ P_Len
    \/ P_Return
    \/ P_Inner
    \/ NextShard
    \/ Collect

SpecShard == InitShard /\ [][NextSharded]_vars

\* C4: the 26 one-letter shards together return the pairs of the one pass
\* brute_force_wwise(min_len, max_len), each once
ShardPartition ==
    pc = "joined" => /\ Range(sharded) = Range(onepass)
                     /\ Cardinality(Range(sharded)) = Len(sharded)

\* the same for a one pass that starts at length 1, the only lengths the
\* shards can be told to search
ShardPartitionFromOne ==
    (pc = "joined" /\ plan.min_len = 1) => /\ Range(sharded) = Range(onepass)
                                            /\ Cardinality(Range(sharded)) = Len(sharded)

ShardPartitionFromOneWitness ==
    /\ pc = "joined"
    /\ plan.min_len = 1
    /\ plan.max_len = 2
    /\ Len(onepass) >= 4
    /\ Range(sharded) = Range(onepass)

(***************************************************************************)
(* Meet in the middle: the tables and the join                             *)
(***************************************************************************)
\* a HashEntry
Entry(h, s) == [hash |-> h, str |-> s]

RECURSIVE PrefixWwiseInner(_, _, _, _)
\* while (count < max_entries) { entries[count] = ...; count++; increment
\* positions 1+; if (pos < 1) break; }
PrefixWwiseInner(cand, len1, entries, max_entries) ==
    IF Len(entries) < max_entries
    THEN LET e == Append(entries, Entry(wwise_hash(cand), cand))
             n == Increment(cand, len1 - 1, 1, CHARSET_REST, CHARSET_REST_LEN)
         IN  IF n.pos < 1 THEN e ELSE PrefixWwiseInner(n.candidate, len1, e, max_entries)
    ELSE entries

RECURSIVE PrefixWwiseLoop(_, _, _, _, _)
\* the loops over len and first_idx of generate_prefix_hashes_wwise
PrefixWwiseLoop(len1, idx, entries, max_len, max_entries) ==
    IF ~(len1 <= max_len /\ Len(entries) < max_entries) THEN entries
    ELSE IF ~(idx < CHARSET_FIRST_LEN /\ Len(entries) < max_entries)
    THEN PrefixWwiseLoop(len1 + 1, 0, entries, max_len, max_entries)
    ELSE IF len1 = 1
    THEN PrefixWwiseLoop(len1, idx + 1,
             Append(entries, Entry(wwise_hash(<<CHARSET_FIRST[idx + 1]>>),
                                   <<CHARSET_FIRST[idx + 1]>>)),
             max_len, max_entries)
    ELSE PrefixWwiseLoop(len1, idx + 1,
             PrefixWwiseInner(<<CHARSET_FIRST[idx + 1]>> \o Fill(CHARSET_REST[1], len1 - 1),
                              len1, entries, max_entries),
             max_len, max_entries)

\* the entries written by generate_prefix_hashes_wwise (their number is the
\* value returned)
generate_prefix_hashes_wwise(max_len, max_entries) ==
    PrefixWwiseLoop(1, 0, <<>>, max_len, max_entries)

RECURSIVE PrefixInner(_, _, _, _)
\* while (count < max_entries) { entries[count] = ...; count++; increment
\* positions 0+; if (pos < 0) break; }
PrefixInner(cand, len1, entries, max_entries) ==
    IF Len(entries) < max_entries
    THEN LET e == Append(entries, Entry(wwise_hash(cand), cand))
             n == Increment(cand, len1 - 1, 0, CHARSET, CHARSET_LEN)
         IN  IF n.pos < 0 THEN e ELSE PrefixInner(n.candidate, len1, e, max_entries)
    ELSE entries

RECURSIVE PrefixLoop(_, _, _, _)
PrefixLoop(len1, entries, max_len, max_entries) ==
    IF ~(len1 <= max_len /\ Len(entries) < max_entries) THEN entries
    ELSE PrefixLoop(len1 + 1,
                    PrefixInner(Fill(CHARSET[1], len1), len1, entries, max_entries),
                    max_len, max_entries)

\* the entries written by generate_prefix_hashes (every position over CHARSET)
generate_prefix_hashes(max_len, max_entries) == PrefixLoop(1, <<>>, max_len, max_entries)

RECURSIVE SuffixTargets(_, _, _, _, _, _)
\* for (t = 0; t < target_count && count < max_entries; t++)
SuffixTargets(t, cand, len1, entries, targets, max_entries) ==
    IF t < Len(targets) /\ Len(entries) < max_entries
    THEN SuffixTargets(t + 1, cand, len1,
             Append(entries, Entry(wwise_hash_inverse(targets[t + 1], cand, len1), cand)),
             targets, max_entries)
    ELSE entries

RECURSIVE SuffixInner(_, _, _, _, _)
SuffixInner(cand, len1, entries, targets, max_entries) ==
    IF Len(entries) < max_entries
    THEN LET e == SuffixTargets(0, cand, len1, entries, targets, max_entries)
             n == Increment(cand, len1 - 1, 0, CHARSET, CHARSET_LEN)
         IN  IF n.pos < 0 THEN e ELSE SuffixInner(n.candidate, len1, e, targets, max_entries)
    ELSE entries

RECURSIVE SuffixLoop(_, _, _, _, _)
SuffixLoop(len1, entries, max_len, targets, max_entries) ==
    IF ~(len1 <= max_len /\ Len(entries) < max_entries) THEN entries
    ELSE SuffixLoop(len1 + 1,
                    SuffixInner(Fill(CHARSET[1], len1), len1, entries, targets, max_entries),
                    max_len, targets, max_entries)

\* the entries of generate_suffix_inverse_hashes before the qsort
SuffixEntries(max_len, targets, max_entries) ==
    SuffixLoop(1, <<>>, max_len, targets, max_entries)

\* a - b modulo 2^32
Sub32(a, b) ==
    LET lo == a[2] - b[2]
        hi == a[1] - b[1] - (IF lo < 0 THEN 1 ELSE 0)
    IN  <<(hi + Limb) % Limb, (lo + Limb) % Limb>>

\* the sign of hash_entry_compare: the uint32_t difference of the hashes,
\* converted to int (negative when its top bit is set)
hash_entry_compare(a, b) ==
    LET d == Sub32(a.hash, b.hash)
    IN  IF d = U32(0, 0) THEN 0 ELSE IF d[1] >= 32768 THEN -1 ELSE 1

\* the comparison orders the entries consistently: antisymmetric and transitive
Consistent(entries) ==
    LET n == Len(entries)
    IN  /\ \A i, j \in 1..n :
              hash_entry_compare(entries[i], entries[j])
                  = -hash_entry_compare(entries[j], entries[i])
        /\ \A i, j, k \in 1..n :
              (/\ hash_entry_compare(entries[i], entries[j]) <= 0
               /\ hash_entry_compare(entries[j], entries[k]) <= 0)
              => hash_entry_compare(entries[i], entries[k]) <= 0

\* the rearrangements of a table
Rearrangements(entries) ==
    LET n == Len(entries)
    IN  {[i \in 1..n |-> entries[f[i]]] :
            f \in {g \in [1..n -> 1..n] : \A i, j \in 1..n : g[i] = g[j] => i = j}}

\* what qsort may leave: with a consistent comparison, a rearrangement in the
\* order of the comparison (equal entries in any order); with an inconsistent
\* one the behaviour is undefined, and any rearrangement may result
qsort(entries) ==
    IF Consistent(entries)
    THEN {p \in Rearrangements(entries) :
             \A i \in 1..(Len(p) - 1) : hash_entry_compare(p[i], p[i + 1]) <= 0}
    ELSE Rearrangements(entries)

RECURSIVE MitmSearch(_, _, _, _)
\* the binary search of mitm_find_collisions: the index of the entry found, or -1
MitmSearch(h, table, lo, hi) ==
    IF lo > hi THEN -1
    ELSE LET mid == (lo + hi) \div 2
         IN  IF table[mid + 1].hash = h THEN mid
             ELSE IF Less32(table[mid + 1].hash, h) THEN MitmSearch(h, table, mid + 1, hi)
             ELSE MitmSearch(h, table, lo, mid - 1)

\* mutant: the two strings are written in the other order
JoinedSwapped(a, b) == SubSeq(b \o a, 1, IF Len(a) + Len(b) < 31 THEN Len(a) + Len(b) ELSE 31)

\* snprintf(results[found], 32, "%s%s", a, b): at most 31 bytes are kept
Joined(a, b) == SubSeq(a \o b, 1, IF Len(a) + Len(b) < 31 THEN Len(a) + Len(b) ELSE 31)

MaxEntries == 4

MitmArgs(g, pl, pe, sl, se, t, r) ==
    [generator |-> g, prefix_max_len |-> pl, prefix_max_entries |-> pe,
     suffix_max_len |-> sl, suffix_max_entries |-> se, targets |-> t,
     target_count |-> Len(t), max_results |-> r]

\* forward tables: cut short at every capacity up to MaxEntries, and long
\* enough to hold entries of length 2 (26 + 2 with the first-letter rule,
\* 37 + 2 without it)
ForwardTables ==
    {<<"wwise", l, c>> : l \in 1..2, c \in 0..MaxEntries}
    \cup {<<"legacy", l, c>> : l \in 1..2, c \in {1, MaxEntries}}
    \cup {<<"wwise", 2, CHARSET_FIRST_LEN + 2>>, <<"legacy", 2, CHARSET_LEN + 2>>}

\* target arrays: hash("aa"); hash("ab"), hash("aa"); hash("aa"), hash("ba");
\* hash("aa") twice; hash("aa"), hash("aba"); hash("bb"), hash("ba") (the
\* inverse entries of the suffixes "b" and "a" then share the hash of "b")
MitmTargets ==
    {HashesOf(<<(<<97, 97>>)>>),
     SortU32(HashesOf(<<(<<97, 97>>), (<<97, 98>>)>>)),
     SortU32(HashesOf(<<(<<97, 97>>), (<<98, 97>>)>>)),
     HashesOf(<<(<<97, 97>>), (<<97, 97>>)>>),
     SortU32(HashesOf(<<(<<97, 97>>), (<<97, 98, 97>>)>>)),
     SortU32(HashesOf(<<(<<98, 98>>), (<<98, 97>>)>>))}

MitmCalls ==
    {MitmArgs(f[1], f[2], f[3], sl, se, t, r) :
        f \in ForwardTables, sl \in 1..2, se \in 0..MaxEntries, t \in MitmTargets,
        r \in {0, 1, MaxEntries}}

InitMitm ==
    /\ IdleFilter
    /\ IdleLegacy
    /\ IdleHash
    /\ IdleSearch
    /\ IdleEnum
    /\ IdleShard
    /\ m_args \in MitmCalls
    /\ m_pc = "prefix"
    /\ prefix_table = <<>>
    /\ suffix_table = <<>>
    /\ m_i = 0
    /\ results = <<>>

\* the caller fills the forward table with generate_prefix_hashes_wwise
GenPrefixWwise ==
    /\ m_pc = "prefix"
    /\ m_args.generator = "wwise"
    /\ prefix_table' = generate_prefix_hashes_wwise(m_args.prefix_max_len,
                                                    m_args.prefix_max_entries)
    /\ m_pc' = "suffix"
    /\ UNCHANGED <<m_args, suffix_table, m_i, results>>
    /\ UNCHANGED <<hashVars, bsVars, enumVars, shardVars, filterVars, legacyVars>>

\* the caller fills the forward table with generate_prefix_hashes
GenPrefixLegacy ==
    /\ m_pc = "prefix"
    /\ m_args.generator = "legacy"
    /\ prefix_table' = generate_prefix_hashes(m_args.prefix_max_len, m_args.prefix_max_entries)
    /\ m_pc' = "suffix"
    /\ UNCHANGED <<m_args, suffix_table, m_i, results>>
    /\ UNCHANGED <<hashVars, bsVars, enumVars, shardVars, filterVars, legacyVars>>

\* generate_suffix_inverse_hashes: the entries are written, then sorted by qsort
generate_suffix_inverse_hashes ==
    /\ m_pc = "suffix"
    /\ suffix_table' \in qsort(SuffixEntries(m_args.suffix_max_len, m_args.targets,
                                              m_args.suffix_max_entries))
    /\ m_pc' = "join"
    /\ UNCHANGED <<m_args, prefix_table, m_i, results>>
    /\ UNCHANGED <<hashVars, bsVars, enumVars, shardVars, filterVars, legacyVars>>

\* one turn of the loop of mitm_find_collisions over the forward table: the
\* entry i is searched in the inverse table, and on a match the two strings
\* are written to results[found]
mitm_find_collisions_step ==
    /\ m_pc = "join"
    /\ m_i < Len(prefix_table) /\ Len(results) < m_args.max_results
    /\ LET mid == MitmSearch(prefix_table[m_i + 1].hash, suffix_table, 0,
                             Len(suffix_table) - 1)
       IN  results' = IF mid >= 0
                      THEN Append(results, Joined(prefix_table[m_i + 1].str,
                                                  suffix_table[mid + 1].str))
                      ELSE results
    /\ m_i' = m_i + 1
    /\ UNCHANGED <<m_args, m_pc, prefix_table, suffix_table>>
    /\ UNCHANGED <<hashVars, bsVars, enumVars, shardVars, filterVars, legacyVars>>

\* the loop ends: return found
mitm_find_collisions_return ==
    /\ m_pc = "join"
    /\ ~(m_i < Len(prefix_table) /\ Len(results) < m_args.max_results)
    /\ m_pc' = "done"
    /\ UNCHANGED <<m_args, prefix_table, suffix_table, m_i, results>>
    /\ UNCHANGED <<hashVars, bsVars, enumVars, shardVars, filterVars, legacyVars>>

NextMitm ==
    \/ GenPrefixWwise
    \/ GenPrefixLegacy
    \/ generate_suffix_inverse_hashes
    \/ mitm_find_collisions_step
    \/ mitm_find_collisions_return

SpecMitm == InitMitm /\ [][NextMitm]_vars

\* C5: every string the join writes to results hashes to a target
MitmSound ==
    \A i \in 1..Len(results) : Occurs(wwise_hash(results[i]), m_args.targets)

\* two strings reported, one of them from a forward entry of length 2
MitmSoundWitness ==
    /\ m_pc = "done"
    /\ Len(results) >= 2
    /\ Len(results[1]) # Len(results[2])
    /\ \A i \in 1..Len(results) : Occurs(wwise_hash(results[i]), m_args.targets)

(***************************************************************************)
(* The fuzzy mask and the 30-bit fold                                      *)
(***************************************************************************)
\* 32-bit values with every pattern of the top two bits and of the low byte
SampleWords ==
    {U32(hi, lo) : hi \in {0, 1, 16384, 32768, 49152, 33052, 65535},
                   lo \in {0, 1, 255, 256, 257, 32768, 40389, 65535}}

InitBits ==
    /\ IdleFilter
    /\ IdleLegacy
    /\ fn = "none"
    /\ arg_h \in SampleWords
    /\ str_p \in SampleStrings
    /\ str_s = <<>>
    /\ ret = U32(0, 0)
    /\ IdleSearch
    /\ IdleEnum
    /\ IdleShard
    /\ IdleMitm

Call_wwise_hash_fuzzy_mask ==
    /\ fn = "none"
    /\ fn' = "fuzzy_mask"
    /\ ret' = wwise_hash_fuzzy_mask(arg_h)
    /\ UNCHANGED <<arg_h, str_p, str_s>>
    /\ UNCHANGED <<bsVars, enumVars, shardVars, mitmVars, filterVars, legacyVars>>

Call_wwise_hash30 ==
    /\ fn = "none"
    /\ fn' = "hash30"
    /\ ret' = wwise_hash30(str_p)
    /\ UNCHANGED <<arg_h, str_p, str_s>>
    /\ UNCHANGED <<bsVars, enumVars, shardVars, mitmVars, filterVars, legacyVars>>

Call_wwise_hash32_to_30 ==
    /\ fn = "none"
    /\ fn' = "hash32_to_30"
    /\ ret' = wwise_hash32_to_30(arg_h)
    /\ UNCHANGED <<arg_h, str_p, str_s>>
    /\ UNCHANGED <<bsVars, enumVars, shardVars, mitmVars, filterVars, legacyVars>>

NextBits ==
    \/ Call_wwise_hash_fuzzy_mask
    \/ Call_wwise_hash30
    \/ Call_wwise_hash32_to_30

SpecBits == InitBits /\ [][NextBits]_vars

\* bit i (0..31) of a uint32_t
Bit(h, i) == IF i < 16 THEN (h[2] \div Pow2(i)) % 2 ELSE (h[1] \div Pow2(i - 16)) % 2

\* r is h with bits 31 and 30 XORed into bits 1 and 0, and bits 31, 30 cleared
IsFoldOf(r, h) ==
    /\ \A i \in 2..29 : Bit(r, i) = Bit(h, i)
    /\ \A i \in 0..1 : Bit(r, i) = (Bit(h, i) + Bit(h, 30 + i)) % 2
    /\ \A i \in 30..31 : Bit(r, i) = 0

\* C11: the fuzzy mask of h is h with its low 8 bits cleared
FuzzyUpperBits ==
    fn = "fuzzy_mask" => ret = U32(arg_h[1], (arg_h[2] \div 256) * 256)

\* C12: wwise_hash30(s) is wwise_hash32_to_30(wwise_hash(s)), the hash with
\* its top two bits XORed into its low 30 bits
FoldCorrect ==
    /\ fn = "hash30" => /\ ret = wwise_hash32_to_30(wwise_hash(str_p))
                        /\ IsFoldOf(ret, wwise_hash(str_p))
    /\ fn = "hash32_to_30" => IsFoldOf(ret, arg_h)

\* a string whose hash has a top bit set, so that the fold changes a low bit
FoldCorrectWitness ==
    /\ fn = "hash30"
    /\ Len(str_p) = MaxStrLen
    /\ wwise_hash(str_p)[1] >= 16384
    /\ ret = wwise_hash32_to_30(wwise_hash(str_p))
    /\ ret # And32(wwise_hash(str_p), HASH30_MASK)

\* the hashes of a table never decrease, compared as unsigned 32-bit values
SortedByHash(table) ==
    \A i \in 1..(Len(table) - 1) : ~Less32(table[i + 1].hash, table[i].hash)

\* C13: on return from generate_suffix_inverse_hashes the entries are in
\* non-decreasing order of their hash, compared as unsigned 32-bit values
InverseTableSorted == m_pc \in {"join", "done"} => SortedByHash(suffix_table)

\* the comparison is a consistent order on the entries written (so the order
\* qsort leaves is defined), and still the table is not in unsigned order
InverseTableUnsortedDefined ==
    ~(/\ m_pc = "join"
      /\ Consistent(suffix_table)
      /\ ~SortedByHash(suffix_table))

\* C14: with the inverse table sorted and the result capacity not reached,
\* every pair of a forward entry and an inverse entry with equal hashes has its
\* joined string in the results
JoinComplete ==
    (/\ m_pc = "done"
     /\ SortedByHash(suffix_table)
     /\ Len(results) < m_args.max_results)
    => \A i \in 1..Len(prefix_table), j \in 1..Len(suffix_table) :
           prefix_table[i].hash = suffix_table[j].hash
           => \E k \in 1..Len(results) :
                  results[k] = Joined(prefix_table[i].str, suffix_table[j].str)

\* C14 where no two inverse entries share a hash
JoinCompleteDistinct ==
    (/\ m_pc = "done"
     /\ SortedByHash(suffix_table)
     /\ \A i, j \in 1..Len(suffix_table) :
            suffix_table[i].hash = suffix_table[j].hash => i = j
     /\ Len(results) < m_args.max_results)
    => \A i \in 1..Len(prefix_table), j \in 1..Len(suffix_table) :
           prefix_table[i].hash = suffix_table[j].hash
           => \E k \in 1..Len(results) :
                  results[k] = Joined(prefix_table[i].str, suffix_table[j].str)

(***************************************************************************)
(* The n-gram filter                                                       *)
(***************************************************************************)
\* unsigned int idx = (a * 37 * 37 + b * 37 + c) % (37 * 37 * 37), on the
\* bytes of the three characters
TrigramIndex(a, b, c) == (a * 37 * 37 + b * 37 + c) % (37 * 37 * 37)

\* is_valid_trigram: 1 without a filter, else the bit idx of the bitmap
is_valid_trigram(a, b, c) ==
    IF ngram_filter_loaded = 0 THEN 1
    ELSE IF TrigramIndex(a, b, c) \in ngram_filter THEN 0 ELSE 1

\* bitmaps: every bit 1; the bit of "aba" 0; the bits of "aaa" and "aab" 0
FilterData ==
    {{}, {TrigramIndex(97, 98, 97)}, {TrigramIndex(97, 97, 97), TrigramIndex(97, 97, 98)}}

\* init_ngram_filter(filter_data, size): the bitmap is copied and the flag set
init_ngram_filter ==
    /\ pc = "call"
    /\ \E filter_data \in FilterData : ngram_filter' = filter_data
    /\ ngram_filter_loaded' = 1
    /\ UNCHANGED <<hashVars, bsVars, enumVars, shardVars, mitmVars, legacyVars>>

\* searches over strings of length 3: the whole range stopped at the first
\* match, and the shards of the prefixes "ab" and "aa"
FilterCalls ==
    {WwiseArgs(3, 3, T_Matches, 1), WwiseArgs(1, 3, T_Matches, MaxFound),
     PrefixArgs(<<97, 98>>, 3, T_Matches, MaxFound), PrefixArgs(<<97, 98>>, 3, <<>>, 1),
     PrefixArgs(<<97, 97>>, 3, T_Matches, MaxFound)}

InitFilter ==
    /\ IdleFilter
    /\ IdleLegacy
    /\ IdleHash
    /\ IdleSearch
    /\ IdleShard
    /\ IdleMitm
    /\ \E a \in FilterCalls : InitCall(a)

NextFilter ==
    \/ init_ngram_filter
    \/ BeginWwise
    \/ W_Len
    \/ W_Return
    \/ W_FirstSingle
    \/ W_FirstBlock
    \/ W_FirstExit
    \/ W_Inner
    \/ BeginPrefix
    \/ P_Len
    \/ P_Return
    \/ P_Inner

SpecFilter == InitFilter /\ [][NextFilter]_vars

\* s has a 3-character window whose bit is 0 in the filter loaded
HasPrunedWindow(s) ==
    \E i \in 1..(Len(s) - 2) : is_valid_trigram(s[i], s[i + 1], s[i + 2]) = 0

\* C15: with a filter loaded, no candidate with a window whose bit is 0 is
\* hashed or reported; without a filter every trigram is accepted
NgramPruning ==
    /\ (ngram_filter_loaded = 1 /\ visited > 0) => ~HasPrunedWindow(last)
    /\ ngram_filter_loaded = 1 =>
           \A i \in 1..Len(found_names) : ~HasPrunedWindow(found_names[i])
    /\ ngram_filter_loaded = 0 =>
           \A a, b, c \in {48, 95, 97, 122} : is_valid_trigram(a, b, c) = 1

(***************************************************************************)
(* brute_force_wwise run to its return                                     *)
(***************************************************************************)
\* runs over the lengths 1..2 with no, sorted and unsorted targets,
\* capacity 0, 1, MaxFound or never reached; and two runs that reach length 3
WwiseRuns ==
    {WwiseArgs(r[1], r[2], t, m) :
        r \in {<<1, 1>>, <<1, 2>>, <<2, 2>>}, t \in {<<>>, T_Matches, T_Unsorted},
        m \in {0, 1, MaxFound, RangeCount(1, 2)}}
    \cup {WwiseArgs(3, 3, T_Matches, 1), WwiseArgs(2, 3, T_Matches, 3)}

InitWwise ==
    /\ IdleFilter
    /\ IdleLegacy
    /\ IdleHash
    /\ IdleSearch
    /\ IdleShard
    /\ IdleMitm
    /\ \E a \in WwiseRuns : InitCall(a)

NextWwise ==
    \/ BeginWwise
    \/ W_Len
    \/ W_Return
    \/ W_FirstSingle
    \/ W_FirstBlock
    \/ W_FirstExit
    \/ W_Inner

\* the function is one sequential loop nest: a step that can be taken is taken
SpecWwise == InitWwise /\ [][NextWwise]_vars /\ WF_vars(NextWwise)

\* the last candidate of a length: "z" followed by "9"s
LastOfLen(n) == <<CHARSET_FIRST[CHARSET_FIRST_LEN]>> \o Fill(CHARSET_REST[CHARSET_REST_LEN], n - 1)

\* the first candidate of a first-letter block: a letter followed by "a"s
IsBlockStart(s) == \A i \in 2..Len(s) : s[i] = CHARSET_REST[1]

\* a step of the run: the length never goes back and grows by one at a time;
\* a candidate one longer than the last is hashed only after the last
\* candidate of the length before; a first-letter block ends at its last
\* candidate (the carry out of position 1); with the capacity reached no
\* length starts and no first-letter block starts
ProgressStep ==
    /\ pc # "call" => len' \in {len, len + 1}
    /\ (visited = 0 /\ visited' > 0) => Len(last') = args.min_len
    /\ (visited > 0 /\ visited' > visited) =>
           /\ Len(last') \in {Len(last), Len(last) + 1}
           /\ LexLess(last, last') \/ Len(last') = Len(last) + 1
           /\ Len(last') = Len(last) + 1 => last = LastOfLen(Len(last))
    /\ (pc = "w_inner" /\ pc' = "w_first") =>
           \A i \in 2..Len(last') : last'[i] = CHARSET_REST[CHARSET_REST_LEN]
    /\ (pc # "call" /\ found >= args.max_found) =>
           /\ pc = "w_len" => pc' = "done"
           /\ pc = "w_first" => pc' = "w_len"
           /\ visited' > visited => (Len(last') = Len(last) /\ ~IsBlockStart(last'))

\* C16: brute_force_wwise returns; the lengths are taken in increasing order,
\* each after the last candidate of the length before, and nothing is started
\* once the capacity is reached
WwiseTerminates == [][ProgressStep]_vars /\ <>(pc = "done")

\* a run that went from length 2 to length 3 and returned with the capacity
\* reached in the first block of length 3
WwiseTerminatesWitness ==
    /\ pc = "done"
    /\ args.min_len = 2
    /\ args.max_len = 3
    /\ returned = args.max_found
    /\ last = <<97, 57, 57>>

(***************************************************************************)
(* The legacy wrapper brute_force_prefix                                   *)
(***************************************************************************)
\* char found_names[100][32]
LEGACY_NAME_SLOTS == 100

LegacyArgs(p, hi, t, m) == [PrefixArgs(p, hi, t, m) EXCEPT !.call = "legacy"]

\* brute_force_prefix: the local buffer found_names[100][32] is handed to
\* brute_force_prefix_optimized with the arguments of the wrapper
brute_force_prefix ==
    /\ pc = "call"
    /\ args.call = "legacy"
    /\ names_slots' = LEGACY_NAME_SLOTS
    /\ args' = [args EXCEPT !.call = "prefix"]
    /\ UNCHANGED <<pc, len, first_idx, candidate, cached_hash, found, found_hashes,
                   found_names, returned, visited, last, misses, max_written>>
    /\ UNCHANGED <<hashVars, bsVars, shardVars, mitmVars, filterVars>>

\* a name has been written past the last slot of the local buffer: the
\* behaviour is undefined.  Either the write went to the stack above the
\* buffer and the run goes on (the other actions), or the process is stopped
StackOverrun ==
    /\ names_slots > 0
    /\ max_written >= names_slots
    /\ pc \in {"p_len", "p_inner"}
    /\ pc' = "crashed"
    /\ UNCHANGED <<args, len, first_idx, candidate, cached_hash, found, found_hashes,
                   found_names, returned, visited, last, misses, max_written>>
    /\ UNCHANGED <<hashVars, bsVars, shardVars, mitmVars, filterVars, legacyVars>>

\* the first 3 * 37 candidates of length 3: "aaa" .. "ac9"
A3Names ==
    [k \in 1..(3 * CHARSET_REST_LEN) |->
        <<CHARSET_FIRST[1], CHARSET_REST[((k - 1) \div CHARSET_REST_LEN) + 1],
          CHARSET_REST[((k - 1) % CHARSET_REST_LEN) + 1]>>]

A3Hashes == HashesOf(A3Names)

A3Rank ==
    [i \in 1..Len(A3Hashes) |->
        Cardinality({j \in 1..Len(A3Hashes) : Less32(A3Hashes[j], A3Hashes[i])}) + 1]

A3Place == [k \in 1..Len(A3Hashes) |-> CHOOSE i \in 1..Len(A3Hashes) : A3Rank[i] = k]

\* the hashes of "aaa" .. "ac9", sorted: more matches than the buffer has slots
T_A3 == [k \in 1..Len(A3Hashes) |-> A3Hashes[A3Place[k]]]

\* under the prefix "a" up to length 3 with the targets above and a capacity
\* below, at and above the number of slots; and small searches
LegacyCalls ==
    {LegacyArgs(<<97>>, 3, T_A3, m) :
        m \in {MaxFound, LEGACY_NAME_SLOTS, LEGACY_NAME_SLOTS + 1, Len(T_A3)}}
    \cup {LegacyArgs(p, 3, T_Matches, m) : p \in {<<97>>, <<97, 98>>}, m \in 0..MaxFound}

InitLegacy ==
    /\ IdleFilter
    /\ IdleLegacy
    /\ IdleHash
    /\ IdleSearch
    /\ IdleShard
    /\ IdleMitm
    /\ \E a \in LegacyCalls : InitCall(a)

NextLegacy ==
    \/ brute_force_prefix
    \/ BeginPrefix
    \/ P_Len
    \/ P_Return
    \/ P_Inner
    \/ StackOverrun

SpecLegacy == InitLegacy /\ [][NextLegacy]_vars

\* the smaller of two numbers
Min(a, b) == IF a < b THEN a ELSE b

\* C17: brute_force_prefix writes names only into the slots 0..99 of its local
\* buffer, and returns the count and the hashes of
\* brute_force_prefix_optimized: the matching candidates up to max_found
LegacyBufferSafe ==
    names_slots = LEGACY_NAME_SLOTS =>
        /\ max_written < LEGACY_NAME_SLOTS
        /\ pc # "crashed"
        /\ pc = "done" =>
               /\ returned = Min(args.max_found, Cardinality(PrefixMatches(args)))
               /\ Len(found_hashes) = returned
               /\ \A i \in 1..returned : Occurs(found_hashes[i], args.targets)

\* C17 for max_found up to the number of slots
LegacyBufferSafeWithin ==
    (names_slots = LEGACY_NAME_SLOTS /\ args.max_found <= LEGACY_NAME_SLOTS) =>
        /\ max_written < LEGACY_NAME_SLOTS
        /\ pc # "crashed"
        /\ pc = "done" =>
               /\ returned = Min(args.max_found, Cardinality(PrefixMatches(args)))
               /\ Len(found_hashes) = returned
               /\ \A i \in 1..returned : Occurs(found_hashes[i], args.targets)

=============================================================================
